---- MODULE Spec2Model ----
(***************************************************************************)
(* MakeTimingModel (search/MakeTimingModel.cc): extraction of a boundary   *)
(* timing model of a block.  The extractor drives the search engine        *)
(* through one query per (input pin, transition) and one per (output pin,  *)
(* clock, clock pin, clock transition, output transition); every call it   *)
(* makes on the engine is one step of the model.  The engine itself (Sta,  *)
(* Search, Sdc, RiseFallMinMax, LibertyBuilder) is a collaborator whose    *)
(* code is outside MakeTimingModel.cc; it is modelled by its contract.     *)
(***************************************************************************)
EXTENDS Integers, Sequences, FiniteSets, TLC

VARIABLES
  design,             \* the analysed block and the caller's constraints (never written)
  sdc_input_delays,   \* Sdc: input-delay constraints, one record per (pin, rf, clock edge, min/max)
  sdc_output_delays,  \* Sdc: output-delay constraints, same shape
  propagated,         \* Sdc: clocks set propagated
  filtered,           \* Search: scopes whose filtered arrivals are in the cache
  pc,                 \* the next call makeTimingModel makes
  cell_arcs,          \* cell_: the arcs built so far in this run
  returned,           \* the arcs of each finished run, in order
  input_i,            \* findTimingFromInputs: position of input_iter
  input_rf,           \* findTimingFromInputs: loop variable input_rf
  margins_,           \* end_visitor.margins_ (ClockMargins)
  visitor_rf,         \* end_visitor.input_rf_
  output_delays,      \* findTimingFromInputs: local OutputPinDelays
  clk_it,             \* findClkedOutputPaths: position in the four outer loops
  output_rf,          \* findClkedOutputPaths: loop variable output_rf
  attrs,              \* findClkedOutputPaths: local TimingArcAttrs *attrs
  ends                \* findClkedOutputPaths: local PathEndSeq *ends

vars == <<design, sdc_input_delays, sdc_output_delays, propagated, filtered, pc,
          cell_arcs, returned, input_i, input_rf, margins_, visitor_rf,
          output_delays, clk_it, output_rf, attrs, ends>>

----------------------------------------------------------------------------
(* Bounds of the model. *)

\* arrivals, delays and margins of the design are drawn from 1..MaxDelay
MaxDelay == 2
\* a design of a varied family holds at most MaxPaths varied paths / path ends
MaxPaths == 2

----------------------------------------------------------------------------
(* Transitions and min/max, in the order of RiseFall::range() and          *)
(* MinMax::range().                                                        *)

RiseFallRange == <<"rise", "fall">>
RiseFall == {"rise", "fall"}
MinMaxRange == <<"min", "max">>
MinMax == {"min", "max"}

\* RiseFall::asRiseFallBoth: the transitions the RiseFallBoth covers
asRiseFallBoth(rf) == {rf}
\* MinMax::asMinMaxAll, MinMaxAll::all(), MinMaxAll::max(): the extremes covered
asMinMaxAll(mm) == {mm}
MinMaxAll_all == {"min", "max"}
MinMaxAll_max == {"max"}

\* sdc_->defaultArrivalClock() and the transition of its defaultArrivalClockEdge()
defaultArrivalClock == "default_arrival_clock"
defaultArrivalClockEdgeTransition == "rise"

----------------------------------------------------------------------------
(* Maps (std::map): functions whose domain is the set of keys inserted.    *)

EmptyMap == [k \in {} |-> 0]
MapPut(f, k, v) == [x \in (DOMAIN f) \cup {k} |-> IF x = k THEN v ELSE f[x]]

RECURSIVE Concat(_)
Concat(ss) == IF ss = <<>> THEN <<>> ELSE Head(ss) \o Concat(Tail(ss))

Range(s) == {s[i] : i \in DOMAIN s}

----------------------------------------------------------------------------
(* RiseFallMinMax: a value and an exists flag per (transition, min/max).   *)

NoValue == [exists |-> FALSE, value |-> 0]
RiseFallMinMaxInit == [rf \in RiseFall |-> [mm \in MinMax |-> NoValue]]

\* RiseFallMinMax::setValue(rf, min_max, value): overwrite
setValue(m, rf, mm, v) == [m EXCEPT ![rf][mm] = [exists |-> TRUE, value |-> v]]

\* MinMax::compare: value1 is worse than value2 in the sense of min_max
compare(mm, value1, value2) ==
  IF mm = "max" THEN value1 > value2 ELSE value1 < value2

\* RiseFallMinMax::mergeValue(rf, min_max, value): keep the worst
mergeValue(m, rf, mm, v) ==
  IF ~m[rf][mm].exists \/ compare(mm, v, m[rf][mm].value)
  THEN setValue(m, rf, mm, v)
  ELSE m

----------------------------------------------------------------------------
(* The network and the clocks of the design.                               *)

\* network_->direction(pin): Y and Z are the block's outputs
direction(pin) == IF pin \in {"Y", "Z"} THEN "output" ELSE "input"

\* clk->pins() of the clock named clk
ClockPins(clk) ==
  Concat([i \in 1..Len(design.clocks) |->
            IF design.clocks[i].name = clk THEN design.clocks[i].pins ELSE <<>>])

\* sta_->isClockSrc(pin)
isClockSrc(pin) ==
  \E i \in 1..Len(design.clocks) : pin \in Range(design.clocks[i].pins)

\* the clock edges of sdc_->clocks(), clock by clock, rise before fall
SdcClockEdges(clocks) ==
  [k \in 1..(2 * Len(clocks)) |->
     <<clocks[(k + 1) \div 2].name, RiseFallRange[2 - (k % 2)]>>]

\* the key order of a ClockMargins map: it is keyed by ClockEdge pointers, so
\* it is iterated in the order of the addresses of the ClockEdge objects
ClockEdgeOrder == design.edge_addr

\* the key order of an OutputPinDelays map: it is keyed by Pin pointers, so it
\* is iterated in the order of the addresses of the Pin objects
OutputPinOrder == design.pin_addr

\* MakeTimingModel::modelPort: the liberty port named after the pin's port
modelPort(pin) == [port |-> pin]

\* graph_->slew(output_vertex, output_rf, dcalc_ap)
graphSlew(output_pin, rf) == IF rf = "rise" THEN 1 ELSE 2

----------------------------------------------------------------------------
(* Sdc: constraints.  A constraint set by setInputDelay / setOutputDelay   *)
(* without -add replaces the values under its key; a remove deletes them.  *)

\* Sdc::setInputDelay / Sdc::setOutputDelay (pin, rf, clk, clk_rf, min_max, delay)
setDelay(delays, pin, rfs, clk, clk_rf, mms, delay) ==
  {d \in delays : ~(d.pin = pin /\ d.rf \in rfs /\ d.clk = clk
                    /\ d.clk_rf = clk_rf /\ d.mm \in mms)}
  \cup {[pin |-> pin, rf |-> rf, clk |-> clk, clk_rf |-> clk_rf,
         mm |-> mm, delay |-> delay] : rf \in rfs, mm \in mms}

\* Sdc::removeInputDelay / Sdc::removeOutputDelay (pin, rf, clk, clk_rf, min_max)
removeDelay(delays, pin, rfs, clk, clk_rf, mms) ==
  {d \in delays : ~(d.pin = pin /\ d.rf \in rfs /\ d.clk = clk
                    /\ d.clk_rf = clk_rf /\ d.mm \in mms)}

----------------------------------------------------------------------------
(* Search: filtered arrivals, path ends.                                   *)

\* the scope findFilteredArrivals(from) caches: arrivals leave the from pin
\* only when an input arrival is installed on it for that transition
FilterScope(pin, rf) ==
  [pin |-> pin, rf |-> rf,
   seeded |-> \E d \in sdc_input_delays : d.pin = pin /\ d.rf = rf]

\* search_->matchesFilter(path, nullptr)
matchesFilter(path) ==
  \E s \in filtered : s.pin = path.from /\ s.rf = path.from_rf /\ s.seeded

\* VertexPathIterator(graph_->pinLoadVertex(output_pin)): the paths at the pin
VertexPaths(output_pin) ==
  SelectSeq(design.paths, LAMBDA p : p.to = output_pin)

\* path_end->targetClkDelay: the latency of the target clock when propagated
targetClkDelay(path_end) ==
  IF path_end.clk \in propagated THEN path_end.latency ELSE 0

\* the path ends a filtered path reaching an output has: one per output-delay
\* constraint on that output for the path's transition and min/max
OutputDelayEnds(path) ==
  Concat([k \in 1..Len(SdcClockEdges(design.clocks)) |->
    LET edge == SdcClockEdges(design.clocks)[k]
        ods == {d \in sdc_output_delays :
                  /\ d.pin = path.to /\ d.rf = path.rf /\ d.mm = path.mm
                  /\ d.clk = edge[1]
                  /\ d.clk_rf = edge[2]}
    IN  IF ods = {} THEN <<>>
        ELSE <<[from |-> path.from, from_rf |-> path.from_rf,
                clk |-> edge[1], clk_rf |-> edge[2],
                mm |-> path.mm, arrival |-> path.arrival, latency |-> 0,
                margin |-> (CHOOSE d \in ods : TRUE).delay]>>])

\* the path ends visitPathEnds(end, corner_, MinMaxAll::all(), true, ...) hands to
\* the visitor over all of search_->endpoints(): those of filtered paths
PathEndsVisited ==
  SelectSeq(design.ends, matchesFilter)
  \o Concat([i \in 1..Len(design.paths) |->
               IF matchesFilter(design.paths[i])
               THEN OutputDelayEnds(design.paths[i]) ELSE <<>>])

\* sta_->findPathEnds(from clk/clk_rf, to output_pin/output_rf, max, 1 group,
\* 1 endpoint): the critical path end from the clock edge to the output, which
\* is constrained by the output delay installed for that clock edge
findPathEnds(clk, clk_rf, output_pin, rf, mms) ==
  LET constrained == \E d \in sdc_output_delays :
                        /\ d.pin = output_pin /\ d.rf = rf /\ d.clk = clk
                        /\ d.clk_rf = clk_rf /\ d.mm \in mms
      found == {e \in design.clkout :
                  /\ e.clk = clk /\ e.clk_rf = clk_rf
                  /\ e.to = output_pin /\ e.rf = rf}
  IN  IF constrained /\ found # {} THEN <<CHOOSE e \in found : TRUE>> ELSE <<>>

----------------------------------------------------------------------------
(* Scalar models and arcs of the synthesized cell.                         *)

NoModel == [exists |-> FALSE, value |-> 0, slew |-> 0, scale |-> "none"]
\* TimingArcAttrs *attrs = nullptr
NullAttrs ==
  [null |-> TRUE, models |-> [rf \in RiseFall |-> NoModel], sense |-> "unknown"]

\* MakeTimingModel::makeScalarCheckModel(value, scale_factor_type, rf)
makeScalarCheckModel(value, scale_factor_type) ==
  [exists |-> TRUE, value |-> value, slew |-> 0, scale |-> scale_factor_type]

\* MakeTimingModel::makeScalarGateModel(delay, slew, rf)
makeScalarGateModel(delay, slew) ==
  [exists |-> TRUE, value |-> delay, slew |-> slew, scale |-> "cell"]

\* if (attrs == nullptr) attrs = new TimingArcAttrs(); attrs->setModel(rf, model)
setModel(a, rf, model) ==
  [null |-> FALSE, models |-> [a.models EXCEPT ![rf] = model], sense |-> a.sense]

\* attrs->setTimingSense(sense)
setTimingSense(a, sense) == [a EXCEPT !.sense = sense]

----------------------------------------------------------------------------
(* OutputDelays.                                                           *)

\* OutputDelays::OutputDelays()
OutputDelaysInit ==
  [delays |-> RiseFallMinMaxInit,
   rf_path_exists |-> [i \in RiseFall |-> [o \in RiseFall |-> FALSE]]]

\* timingSense with the two indices of rf_path_exists taken the other way round
\* in the unate tests
timingSense_Transposed(od) ==
  LET e == od.rf_path_exists IN
  IF e["rise"]["rise"] /\ e["rise"]["fall"] /\ e["fall"]["rise"] /\ e["fall"]["fall"]
  THEN "non_unate"
  ELSE IF e["rise"]["fall"] /\ e["fall"]["rise"]
          /\ ~e["rise"]["rise"] /\ ~e["fall"]["fall"]
  THEN "positive_unate"
  ELSE IF e["rise"]["rise"] /\ e["fall"]["fall"]
          /\ ~e["rise"]["fall"] /\ ~e["fall"]["rise"]
  THEN "negative_unate"
  ELSE IF e["rise"]["rise"] \/ e["rise"]["fall"] \/ e["fall"]["rise"] \/ e["fall"]["fall"]
  THEN "non_unate"
  ELSE "none"

\* timingSense without the fall-through branch for partly populated matrices
timingSense_NoFallThrough(od) ==
  LET e == od.rf_path_exists IN
  IF e["rise"]["rise"] /\ e["rise"]["fall"] /\ e["fall"]["rise"] /\ e["fall"]["fall"]
  THEN "non_unate"
  ELSE IF e["rise"]["rise"] /\ e["fall"]["fall"]
          /\ ~e["rise"]["fall"] /\ ~e["fall"]["rise"]
  THEN "positive_unate"
  ELSE IF e["rise"]["fall"] /\ e["fall"]["rise"]
          /\ ~e["rise"]["rise"] /\ ~e["fall"]["fall"]
  THEN "negative_unate"
  ELSE "none"

\* OutputDelays::timingSense()
timingSense(od) ==
  LET e == od.rf_path_exists IN
  IF e["rise"]["rise"] /\ e["rise"]["fall"] /\ e["fall"]["rise"] /\ e["fall"]["fall"]
  THEN "non_unate"
  ELSE IF e["rise"]["rise"] /\ e["fall"]["fall"]
          /\ ~e["rise"]["fall"] /\ ~e["fall"]["rise"]
  THEN "positive_unate"
  ELSE IF e["rise"]["fall"] /\ e["fall"]["rise"]
          /\ ~e["rise"]["rise"] /\ ~e["fall"]["fall"]
  THEN "negative_unate"
  ELSE IF e["rise"]["rise"] \/ e["rise"]["fall"] \/ e["fall"]["rise"] \/ e["fall"]["fall"]
  THEN "non_unate"
  ELSE "none"

\* recordPath that merges the delay and leaves rf_path_exists alone
recordPath_NoExists(path, in_rf, output_pin, opd) ==
  IF matchesFilter(path)
  THEN LET delays == IF output_pin \in DOMAIN opd
                     THEN opd[output_pin] ELSE OutputDelaysInit
       IN  MapPut(opd, output_pin,
                  [delays |-> mergeValue(delays.delays, path.rf, path.mm, path.arrival),
                   rf_path_exists |-> delays.rf_path_exists])
  ELSE opd

\* recordPath that overwrites the delay slot (setValue for mergeValue)
recordPath_Overwrite(path, in_rf, output_pin, opd) ==
  IF matchesFilter(path)
  THEN LET delays == IF output_pin \in DOMAIN opd
                     THEN opd[output_pin] ELSE OutputDelaysInit
       IN  MapPut(opd, output_pin,
                  [delays |-> setValue(delays.delays, path.rf, path.mm, path.arrival),
                   rf_path_exists |->
                     [delays.rf_path_exists EXCEPT ![in_rf][path.rf] = TRUE]])
  ELSE opd

\* findOutputDelays, lines 277-284: one path of the VertexPathIterator
recordPath(path, in_rf, output_pin, opd) ==
  IF matchesFilter(path)
  THEN LET delays == IF output_pin \in DOMAIN opd
                     THEN opd[output_pin] ELSE OutputDelaysInit
       IN  MapPut(opd, output_pin,
                  [delays |-> mergeValue(delays.delays, path.rf, path.mm, path.arrival),
                   rf_path_exists |->
                     [delays.rf_path_exists EXCEPT ![in_rf][path.rf] = TRUE]])
  ELSE opd

RECURSIVE recordPaths(_, _, _, _)
\* findOutputDelays, lines 275-285: the loop over the paths of one output vertex
recordPaths(paths, in_rf, output_pin, opd) ==
  IF paths = <<>> THEN opd
  ELSE recordPaths(Tail(paths), in_rf, output_pin,
                   recordPath(Head(paths), in_rf, output_pin, opd))

RECURSIVE findOutputDelaysFrom(_, _, _)
\* findOutputDelays, lines 269-287: the loop over the pins of the top instance
findOutputDelaysFrom(pins, in_rf, opd) ==
  IF pins = <<>> THEN opd
  ELSE findOutputDelaysFrom(Tail(pins), in_rf,
         IF direction(Head(pins)) = "output"
         THEN recordPaths(VertexPaths(Head(pins)), in_rf, Head(pins), opd)
         ELSE opd)

\* MakeTimingModel::findOutputDelays(input_rf, output_pin_delays)
findOutputDelays(in_rf, output_pin_delays) ==
  findOutputDelaysFrom(design.pins, in_rf, output_pin_delays)

----------------------------------------------------------------------------
(* MakeEndTimingArcs: the path end visitor.                                *)

\* visit keeping the worst margin of a slot instead of the one written last
visit_Merged(path_end, in_rf, clk_margins) ==
  LET tgt_clk_edge == <<path_end.clk, path_end.clk_rf>>
      data_arrival == path_end.arrival
      clk_latency == targetClkDelay(path_end)
      check_setup == path_end.margin
      margin == data_arrival - clk_latency + check_setup
      margins == IF tgt_clk_edge \in DOMAIN clk_margins
                 THEN clk_margins[tgt_clk_edge] ELSE RiseFallMinMaxInit
  IN  MapPut(clk_margins, tgt_clk_edge,
             mergeValue(margins, in_rf, path_end.mm, margin))

\* MakeEndTimingArcs::visit(path_end), with input_rf_ = in_rf
visit(path_end, in_rf, clk_margins) ==
  LET tgt_clk_edge == <<path_end.clk, path_end.clk_rf>>
      data_arrival == path_end.arrival
      clk_latency == targetClkDelay(path_end)
      check_setup == path_end.margin
      margin == data_arrival - clk_latency + check_setup
      margins == IF tgt_clk_edge \in DOMAIN clk_margins
                 THEN clk_margins[tgt_clk_edge] ELSE RiseFallMinMaxInit
  IN  MapPut(clk_margins, tgt_clk_edge,
             setValue(margins, in_rf, path_end.mm, margin))

RECURSIVE visitPathEnds(_, _, _)
\* findTimingFromInputs, lines 250-251: every path end goes to the visitor
visitPathEnds(path_ends, in_rf, clk_margins) ==
  IF path_ends = <<>> THEN clk_margins
  ELSE visitPathEnds(Tail(path_ends), in_rf,
                     visit(Head(path_ends), in_rf, clk_margins))

----------------------------------------------------------------------------
(* Arc synthesis.  An arc set of the cell: the ports it joins, the         *)
(* transition of the from port (clocked arcs), its role, its timing sense  *)
(* and its model per transition.                                           *)

\* makeSetupHoldTimingArcs, lines 299-319: the attrs of one (clock edge, min/max)
checkAttrs(margins, mm) ==
  LET setup == (mm = "max")
      scale_type == IF setup THEN "setup" ELSE "hold"
      a1 == IF margins["rise"][mm].exists
            THEN setModel(NullAttrs, "rise",
                          makeScalarCheckModel(margins["rise"][mm].value, scale_type))
            ELSE NullAttrs
  IN  IF margins["fall"][mm].exists
      THEN setModel(a1, "fall",
                    makeScalarCheckModel(margins["fall"][mm].value, scale_type))
      ELSE a1

\* setupHoldArcs with setup taken from the min extreme
setupHoldArcs_RoleSwapped(input_pin, clk_edge, margins, mm) ==
  LET a == checkAttrs(margins, mm)
      setup == (mm = "min")
      clk_pins == ClockPins(clk_edge[1])
  IN  IF ~a.null
      THEN [i \in 1..Len(clk_pins) |->
              [from |-> modelPort(clk_pins[i]), to |-> modelPort(input_pin),
               from_rf |-> clk_edge[2],
               role |-> IF setup THEN "setup" ELSE "hold",
               sense |-> a.sense, models |-> a.models]]
      ELSE <<>>

\* makeSetupHoldTimingArcs, lines 320-330: the arcs of one (clock edge, min/max)
setupHoldArcs(input_pin, clk_edge, margins, mm) ==
  LET a == checkAttrs(margins, mm)
      setup == (mm = "max")
      clk_pins == ClockPins(clk_edge[1])
  IN  IF ~a.null
      THEN [i \in 1..Len(clk_pins) |->
              [from |-> modelPort(clk_pins[i]), to |-> modelPort(input_pin),
               from_rf |-> clk_edge[2],
               role |-> IF setup THEN "setup" ELSE "hold",
               sense |-> a.sense, models |-> a.models]]
      ELSE <<>>

\* MakeTimingModel::makeSetupHoldTimingArcs(input_pin, clk_margins)
makeSetupHoldTimingArcs(input_pin, clk_margins) ==
  Concat([k \in 1..Len(ClockEdgeOrder) |->
    IF ClockEdgeOrder[k] \in DOMAIN clk_margins
    THEN Concat([m \in 1..2 |->
           setupHoldArcs(input_pin, ClockEdgeOrder[k],
                         clk_margins[ClockEdgeOrder[k]], MinMaxRange[m])])
    ELSE <<>>])

\* makeInputOutputTimingArcs, lines 343-362: the attrs of one output pin
gateAttrs(output_pin, od) ==
  LET a1 == IF od.delays["rise"]["max"].exists
            THEN setModel(NullAttrs, "rise",
                          makeScalarGateModel(od.delays["rise"]["max"].value,
                                              graphSlew(output_pin, "rise")))
            ELSE NullAttrs
  IN  IF od.delays["fall"]["max"].exists
      THEN setModel(a1, "fall",
                    makeScalarGateModel(od.delays["fall"]["max"].value,
                                        graphSlew(output_pin, "fall")))
      ELSE a1

\* makeInputOutputTimingArcs, lines 363-370: the arc of one output pin
inputOutputArcs(input_pin, output_pin, od) ==
  LET a == gateAttrs(output_pin, od)
  IN  IF ~a.null
      THEN LET a1 == setTimingSense(a, timingSense(od))
           IN  <<[from |-> modelPort(input_pin), to |-> modelPort(output_pin),
                  from_rf |-> "none", role |-> "combinational",
                  sense |-> a1.sense, models |-> a1.models]>>
      ELSE <<>>

\* MakeTimingModel::makeInputOutputTimingArcs(input_pin, output_pin_delays)
makeInputOutputTimingArcs(input_pin, output_pin_delays) ==
  Concat([i \in 1..Len(OutputPinOrder) |->
    IF OutputPinOrder[i] \in DOMAIN output_pin_delays
    THEN inputOutputArcs(input_pin, OutputPinOrder[i],
                         output_pin_delays[OutputPinOrder[i]])
    ELSE <<>>])

\* findClkedOutputPaths, lines 425-429: the arc of one (output, clock pin, clk_rf)
regClkToQArcs(it, a) ==
  IF ~a.null
  THEN <<[from |-> modelPort(it.clk_pin), to |-> modelPort(it.output_pin),
          from_rf |-> it.clk_rf, role |-> "regClkToQ",
          sense |-> a.sense, models |-> a.models]>>
  ELSE <<>>

----------------------------------------------------------------------------
(* Loop positions.                                                         *)

\* findTimingFromInputs, lines 231-232: the pins the input loop analyses
isAnalysedInput(pin) == direction(pin) = "input" /\ ~isClockSrc(pin)

\* the next pin after position i the input loop analyses (Len + 1: none)
NextInput(i) ==
  LET later == {j \in (i + 1)..Len(design.pins) : isAnalysedInput(design.pins[j])}
  IN  IF later = {} THEN Len(design.pins) + 1
      ELSE CHOOSE j \in later : \A k \in later : j <= k

OutputPins == SelectSeq(design.pins, LAMBDA p : direction(p) = "output")

\* findClkedOutputPaths, lines 380-388: the iterations of the four outer loops
ClkIterations ==
  Concat([o \in 1..Len(OutputPins) |->
    Concat([c \in 1..Len(design.clocks) |->
      Concat([p \in 1..Len(design.clocks[c].pins) |->
        [r \in 1..2 |->
           [output_pin |-> OutputPins[o], clk |-> design.clocks[c].name,
            clk_pin |-> design.clocks[c].pins[p],
            clk_rf |-> RiseFallRange[r]]]])])])

input_pin == design.pins[input_i]
clk_iter == ClkIterations[clk_it]

----------------------------------------------------------------------------
(* Designs.                                                                *)

\* a D flip-flop behind input A, a buffer from A and B to Z, clock C1 on CK
BaseDesign ==
  [pins   |-> <<"A", "B", "CK", "Z">>,
   clocks |-> <<[name |-> "C1", pins |-> <<"CK">>]>>,
   ends   |-> <<[from |-> "A", from_rf |-> "rise", clk |-> "C1", clk_rf |-> "rise",
                 mm |-> "max", arrival |-> 2, latency |-> 1, margin |-> 1],
                [from |-> "A", from_rf |-> "fall", clk |-> "C1", clk_rf |-> "rise",
                 mm |-> "min", arrival |-> 1, latency |-> 1, margin |-> 1]>>,
   paths  |-> <<[from |-> "A", from_rf |-> "rise", to |-> "Z", rf |-> "rise",
                 mm |-> "max", arrival |-> 1],
                [from |-> "B", from_rf |-> "fall", to |-> "Z", rf |-> "fall",
                 mm |-> "max", arrival |-> 2]>>,
   clkout |-> {[clk |-> "C1", clk_rf |-> "rise", to |-> "Z", rf |-> "rise",
                arrival |-> 2, slew |-> 1]},
   pre_in |-> {}, pre_out |-> {},
   calls  |-> 1,
   edge_addr |-> <<<<"C1", "rise">>, <<"C1", "fall">>>>,
   pin_addr  |-> <<"Z">>]

\* the strictly increasing index sequences of length <= k over 1..n
RECURSIVE IncSeqs(_, _)
IncSeqs(n, k) ==
  IF k = 0 THEN {<<>>}
  ELSE LET shorter == IncSeqs(n, k - 1)
       IN  shorter \cup
           {Append(x[1], x[2]) :
              x \in {y \in shorter \X (1..n) :
                       /\ Len(y[1]) = k - 1
                       /\ (y[1] = <<>> \/ y[1][Len(y[1])] < y[2])}}

Pick(pool, idx) == [i \in 1..Len(idx) |-> pool[idx[i]]]
Reverse(s) == [i \in 1..Len(s) |-> s[Len(s) + 1 - i]]

Origins == <<<<"A", "rise">>, <<"A", "fall">>, <<"B", "rise">>>>

\* paths reaching output Z: from A (either transition; max paths to either
\* transition of Z, min paths to Z rising) or from B rising (max, to Z falling)
PathPool ==
  Concat([o \in 1..Len(Origins) |->
    Concat([m \in 1..(IF Origins[o][1] = "A" THEN 2 ELSE 1) |->
      Concat([r \in 1..(IF Origins[o][1] = "A" THEN 3 - m ELSE 1) |->
        [a \in 1..MaxDelay |->
           [from |-> Origins[o][1], from_rf |-> Origins[o][2], to |-> "Z",
            rf |-> IF Origins[o][1] = "A" THEN RiseFallRange[r] ELSE "fall",
            mm |-> MinMaxRange[3 - m],
            arrival |-> a]]])])])

\* designs that differ in the paths reaching Z: no clock, no register
PathDesigns ==
  {[BaseDesign EXCEPT !.pins = <<"A", "B", "Z">>, !.clocks = <<>>, !.ends = <<>>,
                      !.clkout = {}, !.paths = Pick(PathPool, idx)] :
     idx \in IncSeqs(Len(PathPool), MaxPaths)}

\* check path ends of input A against the edges of clock C1: hold checks
\* against the rising edge, setup checks against the rising edge and, for A
\* rising, the falling edge
EndPool ==
  Concat([f \in 1..2 |->
    Concat([m \in 1..2 |->
      Concat([r \in 1..(IF MinMaxRange[m] = "max" /\ f = 1 THEN 2 ELSE 1) |->
        [a \in 1..MaxDelay |->
           [from |-> "A", from_rf |-> RiseFallRange[f], clk |-> "C1",
            clk_rf |-> RiseFallRange[r], mm |-> MinMaxRange[m],
            arrival |-> a + 1, latency |-> 1, margin |-> 1]]])])])

BEnd == [from |-> "B", from_rf |-> "rise", clk |-> "C1", clk_rf |-> "fall",
         mm |-> "max", arrival |-> 2, latency |-> 0, margin |-> 1]

\* designs that differ in the check path ends behind A; two of them are
\* visited in either order
EndDesigns ==
  {[BaseDesign EXCEPT !.ends = <<BEnd>> \o es, !.clkout = {}] :
     es \in {Pick(EndPool, idx) : idx \in IncSeqs(Len(EndPool), MaxPaths)}
            \cup {Reverse(Pick(EndPool, idx)) :
                    idx \in IncSeqs(Len(EndPool), 2)}}

\* one clock; two clocks on the same pin; a clock on two pins, one of them B;
\* a clock on a pin and a virtual clock
ClockConfigs ==
  {<<[name |-> "C1", pins |-> <<"CK">>]>>,
   <<[name |-> "C1", pins |-> <<"CK">>], [name |-> "C2", pins |-> <<"CK">>]>>,
   <<[name |-> "C1", pins |-> <<"CK", "B">>]>>,
   <<[name |-> "C1", pins |-> <<"CK">>], [name |-> "C2", pins |-> <<>>]>>}

ClockEnds(clks) ==
  Concat([c \in 1..Len(clks) |->
    [m \in 1..2 |->
       [from |-> "A", from_rf |-> RiseFallRange[m], clk |-> clks[c].name,
        clk_rf |-> "rise", mm |-> MinMaxRange[m],
        arrival |-> 2, latency |-> 1, margin |-> 1]]])

\* designs that differ in their clocks, with some of the check path ends
\* (none or two of them under two clocks) and some of the clock -> output
\* paths those clocks allow
ClockDesigns ==
  UNION {{[BaseDesign EXCEPT
             !.clocks = clks,
             !.ends = Pick(ClockEnds(clks), idx),
             !.clkout = {[clk |-> clks[c].name, clk_rf |-> "rise", to |-> "Z",
                          rf |-> "fall", arrival |-> c, slew |-> 1] : c \in cs}] :
            idx \in {i \in IncSeqs(Len(ClockEnds(clks)), 2) :
                       Len(clks) = 1 \/ Len(i) # 1},
            cs \in SUBSET (1..Len(clks))} :
         clks \in ClockConfigs}

\* clock -> output paths: to output Y from the rising edge of clock C1, to
\* output Z from either edge (to Z rising from the falling edge)
ClkOutPool ==
  Concat([o \in 1..2 |->
    Concat([c \in 1..o |->
      Concat([r \in 1..(3 - c) |->
        [a \in 1..MaxDelay |->
           [clk |-> "C1", clk_rf |-> RiseFallRange[c], to |-> <<"Y", "Z">>[o],
            rf |-> RiseFallRange[r], arrival |-> a, slew |-> 3 - r]]])])])

\* the engine reports one critical path end per query
OnePerQuery(es) ==
  \A i, j \in 1..Len(es) :
    (/\ es[i].clk = es[j].clk /\ es[i].clk_rf = es[j].clk_rf
     /\ es[i].to = es[j].to /\ es[i].rf = es[j].rf) => i = j

\* designs with two outputs, both reached from A, that differ in the
\* clock -> output paths
ClkOutDesigns ==
  {[BaseDesign EXCEPT !.pins = <<"A", "CK", "Y", "Z">>, !.ends = <<>>,
                      !.paths = <<[from |-> "A", from_rf |-> "rise", to |-> "Z",
                                   rf |-> "rise", mm |-> "max", arrival |-> 1],
                                  [from |-> "A", from_rf |-> "fall", to |-> "Y",
                                   rf |-> "rise", mm |-> "max", arrival |-> 2]>>,
                      !.clkout = Range(Pick(ClkOutPool, idx))] :
     idx \in {i \in IncSeqs(Len(ClkOutPool), MaxPaths) :
                OnePerQuery(Pick(ClkOutPool, i))}}

\* constraints of the caller: output delays on Z against the edges of C1
PreOutPool ==
  Concat([r \in 1..2 |->
    Concat([c \in 1..2 |->
      [m \in 1..2 |->
         [pin |-> "Z", rf |-> RiseFallRange[r], clk |-> "C1",
          clk_rf |-> RiseFallRange[c], mm |-> MinMaxRange[m], delay |-> 1]]])])

\* constraints of the caller: an input delay on A or B, against the default
\* arrival clock or against C1
PreInChoices ==
  {{},
   {[pin |-> "A", rf |-> rf, clk |-> defaultArrivalClock,
     clk_rf |-> defaultArrivalClockEdgeTransition, mm |-> mm, delay |-> 1] :
      rf \in RiseFall, mm \in MinMax},
   {[pin |-> "B", rf |-> "rise", clk |-> "C1", clk_rf |-> "rise",
     mm |-> "max", delay |-> 1]}}

\* designs that differ in the constraints the caller has set, extracted twice
SdcDesigns ==
  {[BaseDesign EXCEPT !.pre_in = pin, !.pre_out = Range(Pick(PreOutPool, idx)),
                      !.calls = 2] :
     pin \in PreInChoices, idx \in IncSeqs(Len(PreOutPool), 2)}

\* the orders in which the elements of a sequence can be laid out
Orders(s) ==
  {[i \in 1..Len(s) |-> s[p[i]]] :
     p \in {q \in [1..Len(s) -> 1..Len(s)] :
              \A i, j \in 1..Len(s) : q[i] = q[j] => i = j}}

\* a design with its ClockEdge and output Pin objects at any addresses
Allocations(d) ==
  {[d EXCEPT !.edge_addr = e, !.pin_addr = p] :
     e \in Orders(SdcClockEdges(d.clocks)),
     p \in Orders(SelectSeq(d.pins, LAMBDA x : direction(x) = "output"))}

Designs ==
  UNION {Allocations(d) :
           d \in {BaseDesign} \cup PathDesigns \cup EndDesigns \cup ClockDesigns
                  \cup ClkOutDesigns \cup SdcDesigns}

----------------------------------------------------------------------------
(* The run.                                                                *)

Init ==
  /\ design \in Designs
  /\ sdc_input_delays = design.pre_in
  /\ sdc_output_delays = design.pre_out
  /\ propagated = {}
  /\ filtered = {}
  /\ pc = "idle"
  /\ cell_arcs = <<>>
  /\ returned = <<>>
  /\ input_i = 0
  /\ input_rf = "rise"
  /\ margins_ = EmptyMap
  /\ visitor_rf = "rise"
  /\ output_delays = EmptyMap
  /\ clk_it = 0
  /\ output_rf = "rise"
  /\ attrs = NullAttrs
  /\ ends = <<>>

\* makeTimingModel, lines 62-72: a new library and cell, every clock set
\* propagated, then into findTimingFromInputs with a new end visitor
\* (lines 226-228)
MakeTimingModel ==
  /\ pc = "idle"
  /\ Len(returned) < design.calls
  /\ cell_arcs' = <<>>
  /\ propagated' = propagated \cup {design.clocks[i].name : i \in 1..Len(design.clocks)}
  /\ input_i' = 0
  /\ margins_' = EmptyMap
  /\ pc' = "input_iter"
  /\ UNCHANGED <<design, sdc_input_delays, sdc_output_delays, filtered, returned,
                 input_rf, visitor_rf, output_delays, clk_it, output_rf,
                 attrs, ends>>

\* findTimingFromInputs, lines 229-234: the next analysed input pin;
\* end_visitor.setInputPin clears the margins; a fresh OutputPinDelays
NextInputPin ==
  /\ pc = "input_iter"
  /\ input_i' = NextInput(input_i)
  /\ IF input_i' <= Len(design.pins)
     THEN /\ margins_' = EmptyMap
          /\ output_delays' = EmptyMap
          /\ input_rf' = "rise"
          /\ pc' = "setInputDelay"
          /\ UNCHANGED clk_it
     ELSE /\ pc' = "output_iter"
          /\ clk_it' = 0
          /\ UNCHANGED <<margins_, output_delays, input_rf>>
  /\ UNCHANGED <<design, sdc_input_delays, sdc_output_delays, propagated, filtered,
                 cell_arcs, returned, visitor_rf, output_rf, attrs, ends>>

\* findTimingFromInputs, lines 236-240
SetInputDelay ==
  /\ pc = "setInputDelay"
  /\ sdc_input_delays' =
       setDelay(sdc_input_delays, input_pin, asRiseFallBoth(input_rf),
                defaultArrivalClock, defaultArrivalClockEdgeTransition,
                MinMaxAll_all, 0)
  /\ pc' = "deleteFilteredArrivals"
  /\ UNCHANGED <<design, sdc_output_delays, propagated, filtered, cell_arcs,
                 returned, input_i, input_rf, margins_, visitor_rf, output_delays,
                 clk_it, output_rf, attrs, ends>>

\* findTimingFromInputs, line 246
DeleteFilteredArrivals ==
  /\ pc = "deleteFilteredArrivals"
  /\ filtered' = {}
  /\ pc' = "findFilteredArrivals"
  /\ UNCHANGED <<design, sdc_input_delays, sdc_output_delays, propagated, cell_arcs,
                 returned, input_i, input_rf, margins_, visitor_rf, output_delays,
                 clk_it, output_rf, attrs, ends>>

\* findTimingFromInputs, lines 242-247: from = {input_pin}, input_rf
FindFilteredArrivals ==
  /\ pc = "findFilteredArrivals"
  /\ filtered' = filtered \cup {FilterScope(input_pin, input_rf)}
  /\ pc' = "visitPathEnds"
  /\ UNCHANGED <<design, sdc_input_delays, sdc_output_delays, propagated, cell_arcs,
                 returned, input_i, input_rf, margins_, visitor_rf, output_delays,
                 clk_it, output_rf, attrs, ends>>

\* findTimingFromInputs, lines 249-251
VisitPathEnds ==
  /\ pc = "visitPathEnds"
  /\ visitor_rf' = input_rf
  /\ margins_' = visitPathEnds(PathEndsVisited, input_rf, margins_)
  /\ pc' = "findOutputDelays"
  /\ UNCHANGED <<design, sdc_input_delays, sdc_output_delays, propagated, filtered,
                 cell_arcs, returned, input_i, input_rf, output_delays, clk_it,
                 output_rf, attrs, ends>>

\* findTimingFromInputs, line 252
FindOutputDelays ==
  /\ pc = "findOutputDelays"
  /\ output_delays' = findOutputDelays(input_rf, output_delays)
  /\ pc' = "removeInputDelay"
  /\ UNCHANGED <<design, sdc_input_delays, sdc_output_delays, propagated, filtered,
                 cell_arcs, returned, input_i, input_rf, margins_, visitor_rf,
                 clk_it, output_rf, attrs, ends>>

\* RemoveInputDelay that always removes the rise arrival
RemoveInputDelay_WrongTransition ==
  /\ pc = "removeInputDelay"
  /\ sdc_input_delays' =
       removeDelay(sdc_input_delays, input_pin, asRiseFallBoth("rise"),
                   defaultArrivalClock, defaultArrivalClockEdgeTransition,
                   MinMaxAll_all)
  /\ IF input_rf = "rise"
     THEN input_rf' = "fall" /\ pc' = "setInputDelay"
     ELSE input_rf' = input_rf /\ pc' = "makeSetupHoldTimingArcs"
  /\ UNCHANGED <<design, sdc_output_delays, propagated, filtered, cell_arcs,
                 returned, input_i, margins_, visitor_rf, output_delays, clk_it,
                 output_rf, attrs, ends>>

\* findTimingFromInputs, lines 254-258: remove, then the next transition
RemoveInputDelay ==
  /\ pc = "removeInputDelay"
  /\ sdc_input_delays' =
       removeDelay(sdc_input_delays, input_pin, asRiseFallBoth(input_rf),
                   defaultArrivalClock, defaultArrivalClockEdgeTransition,
                   MinMaxAll_all)
  /\ IF input_rf = "rise"
     THEN input_rf' = "fall" /\ pc' = "setInputDelay"
     ELSE input_rf' = input_rf /\ pc' = "makeSetupHoldTimingArcs"
  /\ UNCHANGED <<design, sdc_output_delays, propagated, filtered, cell_arcs,
                 returned, input_i, margins_, visitor_rf, output_delays, clk_it,
                 output_rf, attrs, ends>>

\* findTimingFromInputs, line 259
MakeSetupHoldTimingArcs ==
  /\ pc = "makeSetupHoldTimingArcs"
  /\ cell_arcs' = cell_arcs \o makeSetupHoldTimingArcs(input_pin, margins_)
  /\ pc' = "makeInputOutputTimingArcs"
  /\ UNCHANGED <<design, sdc_input_delays, sdc_output_delays, propagated, filtered,
                 returned, input_i, input_rf, margins_, visitor_rf, output_delays,
                 clk_it, output_rf, attrs, ends>>

\* findTimingFromInputs, line 260
MakeInputOutputTimingArcs ==
  /\ pc = "makeInputOutputTimingArcs"
  /\ cell_arcs' = cell_arcs \o makeInputOutputTimingArcs(input_pin, output_delays)
  /\ pc' = "input_iter"
  /\ UNCHANGED <<design, sdc_input_delays, sdc_output_delays, propagated, filtered,
                 returned, input_i, input_rf, margins_, visitor_rf, output_delays,
                 clk_it, output_rf, attrs, ends>>

\* findClkedOutputPaths, lines 380-389: the next (output pin, clock, clock pin,
\* clock transition); attrs = nullptr
NextClkedOutput ==
  /\ pc = "output_iter"
  /\ clk_it' = clk_it + 1
  /\ IF clk_it' <= Len(ClkIterations)
     THEN attrs' = NullAttrs /\ output_rf' = "rise" /\ pc' = "setOutputDelay"
     ELSE UNCHANGED <<attrs, output_rf>> /\ pc' = "finish"
  /\ UNCHANGED <<design, sdc_input_delays, sdc_output_delays, propagated, filtered,
                 cell_arcs, returned, input_i, input_rf, margins_, visitor_rf,
                 output_delays, ends>>

\* findClkedOutputPaths, lines 391-395
SetOutputDelay ==
  /\ pc = "setOutputDelay"
  /\ sdc_output_delays' =
       setDelay(sdc_output_delays, clk_iter.output_pin, asRiseFallBoth(output_rf),
                clk_iter.clk, clk_iter.clk_rf, asMinMaxAll("max"), 0)
  /\ pc' = "findPathEnds"
  /\ UNCHANGED <<design, sdc_input_delays, propagated, filtered, cell_arcs,
                 returned, input_i, input_rf, margins_, visitor_rf, output_delays,
                 clk_it, output_rf, attrs, ends>>

\* findClkedOutputPaths, lines 397-408: from = {clk}, clk_rf; to = {output_pin},
\* output_rf; the arrivals of the scope stay in the cache
FindPathEnds ==
  /\ pc = "findPathEnds"
  /\ ends' = findPathEnds(clk_iter.clk, clk_iter.clk_rf, clk_iter.output_pin,
                          output_rf, asMinMaxAll("max"))
  /\ filtered' = filtered \cup {[pin |-> clk_iter.clk, rf |-> clk_iter.clk_rf,
                                 seeded |-> TRUE]}
  /\ pc' = "readPathEnd"
  /\ UNCHANGED <<design, sdc_input_delays, sdc_output_delays, propagated, cell_arcs,
                 returned, input_i, input_rf, margins_, visitor_rf, output_delays,
                 clk_it, output_rf, attrs>>

\* ReadPathEnd that allocates new attrs for every path end found
ReadPathEnd_FreshAttrs ==
  /\ pc = "readPathEnd"
  /\ attrs' = IF ends # <<>>
              THEN setModel(NullAttrs, output_rf,
                            makeScalarGateModel(ends[1].arrival, ends[1].slew))
              ELSE attrs
  /\ pc' = "removeOutputDelay"
  /\ UNCHANGED <<design, sdc_input_delays, sdc_output_delays, propagated, filtered,
                 cell_arcs, returned, input_i, input_rf, margins_, visitor_rf,
                 output_delays, clk_it, output_rf, ends>>

\* findClkedOutputPaths, lines 409-422
ReadPathEnd ==
  /\ pc = "readPathEnd"
  /\ attrs' = IF ends # <<>>
              THEN setModel(attrs, output_rf,
                            makeScalarGateModel(ends[1].arrival, ends[1].slew))
              ELSE attrs
  /\ pc' = "removeOutputDelay"
  /\ UNCHANGED <<design, sdc_input_delays, sdc_output_delays, propagated, filtered,
                 cell_arcs, returned, input_i, input_rf, margins_, visitor_rf,
                 output_delays, clk_it, output_rf, ends>>

\* RemoveOutputDelay that removes only when the query found a path end
RemoveOutputDelay_IfFound ==
  /\ pc = "removeOutputDelay"
  /\ sdc_output_delays' =
       IF ends # <<>>
       THEN removeDelay(sdc_output_delays, clk_iter.output_pin,
                        asRiseFallBoth(output_rf), clk_iter.clk, clk_iter.clk_rf,
                        MinMaxAll_max)
       ELSE sdc_output_delays
  /\ IF output_rf = "rise"
     THEN output_rf' = "fall" /\ pc' = "setOutputDelay"
     ELSE output_rf' = output_rf /\ pc' = "makeFromTransitionArcs"
  /\ UNCHANGED <<design, sdc_input_delays, propagated, filtered, cell_arcs,
                 returned, input_i, input_rf, margins_, visitor_rf, output_delays,
                 clk_it, attrs, ends>>

\* findClkedOutputPaths, lines 423-424: remove, then the next output transition
RemoveOutputDelay ==
  /\ pc = "removeOutputDelay"
  /\ sdc_output_delays' =
       removeDelay(sdc_output_delays, clk_iter.output_pin, asRiseFallBoth(output_rf),
                   clk_iter.clk, clk_iter.clk_rf, MinMaxAll_max)
  /\ IF output_rf = "rise"
     THEN output_rf' = "fall" /\ pc' = "setOutputDelay"
     ELSE output_rf' = output_rf /\ pc' = "makeFromTransitionArcs"
  /\ UNCHANGED <<design, sdc_input_delays, propagated, filtered, cell_arcs,
                 returned, input_i, input_rf, margins_, visitor_rf, output_delays,
                 clk_it, attrs, ends>>

\* findClkedOutputPaths, lines 425-429
MakeRegClkToQArcs ==
  /\ pc = "makeFromTransitionArcs"
  /\ cell_arcs' = cell_arcs \o regClkToQArcs(clk_iter, attrs)
  /\ pc' = "output_iter"
  /\ UNCHANGED <<design, sdc_input_delays, sdc_output_delays, propagated, filtered,
                 returned, input_i, input_rf, margins_, visitor_rf, output_delays,
                 clk_it, output_rf, attrs, ends>>

\* makeTimingModel, lines 75-76: the cell is finished and the library returned
Finish ==
  /\ pc = "finish"
  /\ returned' = Append(returned, cell_arcs)
  /\ pc' = "idle"
  /\ UNCHANGED <<design, sdc_input_delays, sdc_output_delays, propagated, filtered,
                 cell_arcs, input_i, input_rf, margins_, visitor_rf, output_delays,
                 clk_it, output_rf, attrs, ends>>

Next ==
  \/ MakeTimingModel
  \/ NextInputPin
  \/ SetInputDelay
  \/ DeleteFilteredArrivals
  \/ FindFilteredArrivals
  \/ VisitPathEnds
  \/ FindOutputDelays
  \/ RemoveInputDelay
  \/ MakeSetupHoldTimingArcs
  \/ MakeInputOutputTimingArcs
  \/ NextClkedOutput
  \/ SetOutputDelay
  \/ FindPathEnds
  \/ ReadPathEnd
  \/ RemoveOutputDelay
  \/ MakeRegClkToQArcs
  \/ Finish

Spec == Init /\ [][Next]_vars

----------------------------------------------------------------------------
(* OutputDelays::timingSense on its own: every existence matrix, with any  *)
(* population of the delay slots, then the call of line 366.               *)

AllOutputDelays ==
  {[delays |-> d, rf_path_exists |-> e] :
     d \in {x \in [RiseFall -> [MinMax -> {NoValue, [exists |-> TRUE, value |-> 1]}]] :
              \E rf \in RiseFall : x[rf]["max"].exists},
     e \in [RiseFall -> [RiseFall -> BOOLEAN]]}

InitSense ==
  /\ design = BaseDesign
  /\ sdc_input_delays = {}
  /\ sdc_output_delays = {}
  /\ propagated = {}
  /\ filtered = {}
  /\ pc = "setTimingSense"
  /\ cell_arcs = <<>>
  /\ returned = <<>>
  /\ input_i = 1
  /\ input_rf = "fall"
  /\ margins_ = EmptyMap
  /\ visitor_rf = "fall"
  /\ output_delays \in {MapPut(EmptyMap, "Z", od) : od \in AllOutputDelays}
  /\ clk_it = 0
  /\ output_rf = "rise"
  /\ attrs = gateAttrs("Z", output_delays["Z"])
  /\ ends = <<>>

\* makeInputOutputTimingArcs, line 366
SetTimingSense ==
  /\ pc = "setTimingSense"
  /\ attrs' = setTimingSense(attrs, timingSense(output_delays["Z"]))
  /\ pc' = "makeCombinationalArcs"
  /\ UNCHANGED <<design, sdc_input_delays, sdc_output_delays, propagated, filtered,
                 cell_arcs, returned, input_i, input_rf, margins_, visitor_rf,
                 output_delays, clk_it, output_rf, ends>>

NextSense == SetTimingSense

SpecSense == InitSense /\ [][NextSense]_vars

----------------------------------------------------------------------------
(* Properties.                                                             *)

ArcsOf(arcs, roles) == {a \in Range(arcs) : a.role \in roles}
Port(pin) == [port |-> pin]

\* the pins that carry a constraint of the caller before the first run
ConstrainedBefore == {d.pin : d \in design.pre_in \cup design.pre_out}

\* C1: when makeTimingModel has returned, no input-delay or output-delay
\* constraint is attached to a pin that had none before the run: every
\* setInputDelay and setOutputDelay was undone, whatever the query returned
C1_NoResidualConstraint ==
  (pc = "idle" /\ returned # <<>>) =>
    \A d \in sdc_input_delays \cup sdc_output_delays : d.pin \in ConstrainedBefore

\* a run has returned on a design whose pins had no constraint, where one
\* clock -> output query found a path end and another found none
C1_Witness ==
  /\ pc = "idle" /\ returned # <<>>
  /\ ConstrainedBefore = {}
  /\ \E a \in ArcsOf(returned[1], {"regClkToQ"}) :
       a.models["rise"].exists /\ ~a.models["fall"].exists
  /\ ArcsOf(returned[1], {"setup"}) # {}
  /\ sdc_input_delays = {} /\ sdc_output_delays = {}

\* a margin was recorded for (clock edge, min/max) during the searches of
\* the current input pin
MarginRecorded(edge, mm) ==
  /\ edge \in DOMAIN margins_
  /\ \E rf \in RiseFall : margins_[edge][rf][mm].exists

CheckRole(mm) == IF mm = "max" THEN "setup" ELSE "hold"

\* the checking arcs that end at the port of the current input pin
CheckArcsToInput ==
  {a \in ArcsOf(cell_arcs, {"setup", "hold"}) : a.to = Port(input_pin)}

\* C2: once the setup/hold arcs of input pin P are made, for every clock
\* edge E and extreme m with a recorded margin there is a checking arc from
\* the port of every pin of E's clock to P's port, keyed by E's transition,
\* with role setup iff m is max; and every checking arc at P's port is the
\* arc of some (E, m) with a recorded margin
C2_CheckArcsFollowMargins ==
  (pc = "makeInputOutputTimingArcs") =>
    /\ \A k \in 1..Len(ClockEdgeOrder) : \A mm \in MinMax :
         MarginRecorded(ClockEdgeOrder[k], mm) =>
           \A clk_pin \in Range(ClockPins(ClockEdgeOrder[k][1])) :
             \E a \in CheckArcsToInput :
               /\ a.from = Port(clk_pin)
               /\ a.from_rf = ClockEdgeOrder[k][2]
               /\ a.role = CheckRole(mm)
               /\ (a.role = "setup") <=> (mm = "max")
               /\ \A rf \in RiseFall :
                    a.models[rf].exists <=> margins_[ClockEdgeOrder[k]][rf][mm].exists
    /\ \A a \in CheckArcsToInput :
         \E k \in 1..Len(ClockEdgeOrder) : \E mm \in MinMax :
           /\ MarginRecorded(ClockEdgeOrder[k], mm)
           /\ a.role = CheckRole(mm)
           /\ a.from_rf = ClockEdgeOrder[k][2]
           /\ \E clk_pin \in Range(ClockPins(ClockEdgeOrder[k][1])) :
                a.from = Port(clk_pin)

\* the arcs of an input pin are made for a clock on two pins, with a margin
\* recorded for max and none for min
C2_Witness ==
  /\ pc = "makeInputOutputTimingArcs"
  /\ \E k \in 1..Len(ClockEdgeOrder) :
       /\ MarginRecorded(ClockEdgeOrder[k], "max")
       /\ ~MarginRecorded(ClockEdgeOrder[k], "min")
       /\ Len(ClockPins(ClockEdgeOrder[k][1])) = 2
       /\ Cardinality(CheckArcsToInput) = 2

\* the combinational arcs from the current input pin to an output pin
CombArcs(output_pin) ==
  {a \in ArcsOf(cell_arcs, {"combinational"}) :
     a.from = Port(input_pin) /\ a.to = Port(output_pin)}

\* the input -> output arcs of the current input pin have just been made
InputArcsMade == pc = "input_iter" /\ input_i \in 1..Len(design.pins)

\* C3, as claimed: an output reached by exactly one of rise->rise, fall->fall
\* and by no cross term gets a positive-unate arc; one reached by exactly one
\* of rise->fall, fall->rise and by no direct term a negative-unate arc
C3_AsClaimed ==
  InputArcsMade =>
    \A o \in DOMAIN output_delays :
      LET e == output_delays[o].rf_path_exists IN
      /\ ((e["rise"]["rise"] # e["fall"]["fall"])
          /\ ~e["rise"]["fall"] /\ ~e["fall"]["rise"])
           => \A a \in CombArcs(o) : a.sense = "positive_unate"
      /\ ((e["rise"]["fall"] # e["fall"]["rise"])
          /\ ~e["rise"]["rise"] /\ ~e["fall"]["fall"])
           => \A a \in CombArcs(o) : a.sense = "negative_unate"

\* C3, amended: an output reached by both rise->rise and fall->fall and by no
\* cross term gets a positive-unate arc; one reached by both rise->fall and
\* fall->rise and by no direct term a negative-unate arc
C3_UnateNeedsBoth ==
  InputArcsMade =>
    \A o \in DOMAIN output_delays :
      LET e == output_delays[o].rf_path_exists IN
      /\ (e["rise"]["rise"] /\ e["fall"]["fall"]
          /\ ~e["rise"]["fall"] /\ ~e["fall"]["rise"])
           => \A a \in CombArcs(o) : a.sense = "positive_unate"
      /\ (e["rise"]["fall"] /\ e["fall"]["rise"]
          /\ ~e["rise"]["rise"] /\ ~e["fall"]["fall"])
           => \A a \in CombArcs(o) : a.sense = "negative_unate"

\* an arc was made to an output reached by rise->rise and fall->fall only
C3_Witness ==
  /\ InputArcsMade
  /\ \E o \in DOMAIN output_delays :
       LET e == output_delays[o].rf_path_exists IN
       /\ e["rise"]["rise"] /\ e["fall"]["fall"]
       /\ ~e["rise"]["fall"] /\ ~e["fall"]["rise"]
       /\ \E a \in CombArcs(o) : a.sense = "positive_unate"

\* no filtered path from the current input pin was recorded at the output
NoPathRecorded(output_pin) ==
  \/ output_pin \notin DOMAIN output_delays
  \/ \A i, o \in RiseFall : ~output_delays[output_pin].rf_path_exists[i][o]

\* C4: an (input pin, output pin) pair with no recorded path gets no
\* combinational arc, and every combinational arc of the cell carries a
\* timing sense other than none
C4_NoArcWithoutPath ==
  /\ InputArcsMade =>
       \A o \in Range(OutputPins) : NoPathRecorded(o) => CombArcs(o) = {}
  /\ \A a \in ArcsOf(cell_arcs, {"combinational"}) : a.sense # "none"

\* the arcs of input B are made: only paths from B reach Z, B has its arc
\* and A, analysed before it with nothing recorded, has none
C4_Witness ==
  /\ InputArcsMade
  /\ input_pin = "B"
  /\ CombArcs("Z") # {}
  /\ design.paths # <<>>
  /\ \A i \in 1..Len(design.paths) : design.paths[i].from = "B"
  /\ \A a \in ArcsOf(cell_arcs, {"combinational"}) : a.from = Port("B")

\* the path end the design holds for a clock -> output query
ClkOutFound(it, rf) ==
  {e \in design.clkout :
     /\ e.clk = it.clk /\ e.clk_rf = it.clk_rf
     /\ e.to = it.output_pin /\ e.rf = rf}

SomeClkOutFound(it) == \E rf \in RiseFall : ClkOutFound(it, rf) # {}

\* the arc claimed for one (output pin, clock, clock pin, clock transition)
ClaimedClkArc(it) ==
  [from |-> Port(it.clk_pin), to |-> Port(it.output_pin), from_rf |-> it.clk_rf,
   role |-> "regClkToQ", sense |-> "unknown",
   models |-> [rf \in RiseFall |->
                 IF ClkOutFound(it, rf) = {} THEN NoModel
                 ELSE LET e == CHOOSE x \in ClkOutFound(it, rf) : TRUE
                      IN  [exists |-> TRUE, value |-> e.arrival, slew |-> e.slew,
                           scale |-> "cell"]]]

\* C5: when findClkedOutputPaths is through, for every output pin, clock, pin
\* of the clock and clock transition, a register-clock-to-output arc from the
\* clock pin's port to the output's port, keyed by the clock transition, was
\* made iff one of the two queries returned a path end; it carries a model
\* exactly for the output transitions whose query did; an empty query gives
\* no arc and no model
C5_ClkArcIffPathEnd ==
  (pc = "finish") =>
    LET made == SelectSeq(cell_arcs, LAMBDA a : a.role = "regClkToQ")
        its == {j \in 1..Len(ClkIterations) : SomeClkOutFound(ClkIterations[j])}
    IN  /\ \A j \in its : ClaimedClkArc(ClkIterations[j]) \in Range(made)
        /\ \A a \in Range(made) : \E j \in its : a = ClaimedClkArc(ClkIterations[j])
        /\ Len(made) = Cardinality(its)

\* findClkedOutputPaths is through two outputs: for one (output, clock edge)
\* both queries found a path end, for another only one, for a third none
C5_Witness ==
  /\ pc = "finish"
  /\ Len(OutputPins) = 2
  /\ \E j \in 1..Len(ClkIterations) :
       \A rf \in RiseFall : ClkOutFound(ClkIterations[j], rf) # {}
  /\ \E j \in 1..Len(ClkIterations) : ~SomeClkOutFound(ClkIterations[j])
  /\ Len(SelectSeq(cell_arcs, LAMBDA a : a.role = "regClkToQ")) = 1

\* C6, as claimed: two runs of makeTimingModel on the same design return the
\* same arcs with the same values, roles and timing senses
C6_SecondRunSame ==
  (Len(returned) = 2) => Range(returned[1]) = Range(returned[2])

\* C7, as claimed: every query (findFilteredArrivals, findPathEnds) is issued
\* on a filtered-arrival cache emptied by deleteFilteredArrivals since the
\* query before it
C7_CacheClearedBeforeQuery ==
  (pc \in {"findFilteredArrivals", "findPathEnds"}) => filtered = {}

\* the transient constraints present: the input arrivals and output delays
\* of value 0, by key
Transients ==
  {[kind |-> "input", pin |-> d.pin, rf |-> d.rf, clk |-> d.clk,
    clk_rf |-> d.clk_rf] : d \in {x \in sdc_input_delays : x.delay = 0}}
  \cup
  {[kind |-> "output", pin |-> d.pin, rf |-> d.rf, clk |-> d.clk,
    clk_rf |-> d.clk_rf] : d \in {x \in sdc_output_delays : x.delay = 0}}

\* the constraint the iteration at hand installs
OwnTransient ==
  IF pc \in {"deleteFilteredArrivals", "findFilteredArrivals", "visitPathEnds",
             "findOutputDelays", "removeInputDelay"}
  THEN {[kind |-> "input", pin |-> input_pin, rf |-> input_rf,
         clk |-> defaultArrivalClock, clk_rf |-> defaultArrivalClockEdgeTransition]}
  ELSE IF pc \in {"findPathEnds", "readPathEnd", "removeOutputDelay"}
  THEN {[kind |-> "output", pin |-> clk_iter.output_pin, rf |-> output_rf,
         clk |-> clk_iter.clk, clk_rf |-> clk_iter.clk_rf]}
  ELSE {}

\* C8: at most one transient constraint is present in any state; between its
\* install and its remove, so at every query and every reading of results,
\* exactly the constraint of the iteration at hand is present, with the
\* extremes it was installed for; outside these windows none is
C8_OneWindowAtATime ==
  /\ Cardinality(Transients) <= 1
  /\ Transients = OwnTransient
  /\ \A t \in OwnTransient :
       IF t.kind = "input"
       THEN \A mm \in MinMax :
              [pin |-> t.pin, rf |-> t.rf, clk |-> t.clk, clk_rf |-> t.clk_rf,
               mm |-> mm, delay |-> 0] \in sdc_input_delays
       ELSE [pin |-> t.pin, rf |-> t.rf, clk |-> t.clk, clk_rf |-> t.clk_rf,
             mm |-> "max", delay |-> 0] \in sdc_output_delays

\* a clock -> output path end is being read in the second run on a design
\* where the caller has constrained the same output
C8_Witness ==
  /\ pc = "readPathEnd"
  /\ ends # <<>>
  /\ Len(returned) = 1
  /\ \E d \in sdc_output_delays : d.pin = clk_iter.output_pin /\ d.delay # 0
  /\ Cardinality(Transients) = 1

\* the number of true entries of an existence matrix
Trues(e) == Cardinality({x \in RiseFall \X RiseFall : e[x[1]][x[2]]})

\* C9: timingSense returns, for every existence matrix: none exactly when no
\* entry is true; positive-unate exactly when rise->rise and fall->fall are
\* the true entries; negative-unate exactly when rise->fall and fall->rise
\* are; non-unate for every other matrix, all four true, one true and three
\* true among them
C9_TimingSenseTable ==
  (pc = "makeCombinationalArcs") =>
    LET e == output_delays["Z"].rf_path_exists
        n == Trues(e)
    IN  /\ attrs.sense \in {"none", "positive_unate", "negative_unate", "non_unate"}
        /\ (attrs.sense = "none") <=> (n = 0)
        /\ (attrs.sense = "positive_unate") <=>
             (n = 2 /\ e["rise"]["rise"] /\ e["fall"]["fall"])
        /\ (attrs.sense = "negative_unate") <=>
             (n = 2 /\ e["rise"]["fall"] /\ e["fall"]["rise"])
        /\ (n \in {1, 3, 4}) => attrs.sense = "non_unate"

\* timingSense has answered non-unate for a matrix with three true entries
C9_Witness ==
  /\ pc = "makeCombinationalArcs"
  /\ Trues(output_delays["Z"].rf_path_exists) = 3
  /\ attrs.sense = "non_unate"

\* the input transitions of the current input pin whose findOutputDelays
\* call has been made
SearchedRfs ==
  IF pc \in {"setInputDelay", "deleteFilteredArrivals", "findFilteredArrivals",
             "visitPathEnds", "findOutputDelays"}
  THEN IF input_rf = "rise" THEN {} ELSE {"rise"}
  ELSE IF pc = "removeInputDelay"
  THEN IF input_rf = "rise" THEN {"rise"} ELSE RiseFall
  ELSE RiseFall

InputAnalysis ==
  \/ pc \in {"setInputDelay", "deleteFilteredArrivals", "findFilteredArrivals",
             "visitPathEnds", "findOutputDelays", "removeInputDelay",
             "makeSetupHoldTimingArcs", "makeInputOutputTimingArcs"}
  \/ InputArcsMade

\* the paths at an output that left the current input pin on a transition
\* already searched: the filter-matching paths seen so far
SeenPaths(output_pin) ==
  {p \in Range(design.paths) :
     p.to = output_pin /\ p.from = input_pin /\ p.from_rf \in SearchedRfs}

Worst(mm, vals) ==
  CHOOSE v \in vals : \A w \in vals : IF mm = "max" THEN v >= w ELSE v <= w

DelaySlot(output_pin, rf, mm) ==
  IF output_pin \in DOMAIN output_delays
  THEN output_delays[output_pin].delays[rf][mm] ELSE NoValue

ExistsBit(output_pin, in_rf, out_rf) ==
  /\ output_pin \in DOMAIN output_delays
  /\ output_delays[output_pin].rf_path_exists[in_rf][out_rf]

\* C10: during the analysis of an input pin, after zero, one or two calls of
\* findOutputDelays, every delay slot (output transition, min/max) of every
\* output pin holds the worst arrival of the filter-matching paths seen so
\* far for that slot, over both input transitions, and is empty if there is
\* none; the existence bit (input transition, output transition) is true iff
\* such a path was seen while that input transition was searched; and the
\* input -> output arc carries a model for an output transition iff the max
\* slot is populated, with that slot's value as its delay
C10_WorstDelayAndExistence ==
  /\ InputAnalysis =>
       \A o \in Range(OutputPins) :
         /\ \A rf \in RiseFall : \A mm \in MinMax :
              LET vals == {p.arrival : p \in {q \in SeenPaths(o) :
                                                q.rf = rf /\ q.mm = mm}}
              IN  /\ DelaySlot(o, rf, mm).exists <=> (vals # {})
                  /\ (vals # {}) => DelaySlot(o, rf, mm).value = Worst(mm, vals)
         /\ \A in_rf \in RiseFall : \A out_rf \in RiseFall :
              ExistsBit(o, in_rf, out_rf) <=>
                \E p \in SeenPaths(o) : p.from_rf = in_rf /\ p.rf = out_rf
  /\ InputArcsMade =>
       \A o \in Range(OutputPins) :
         /\ (CombArcs(o) # {}) <=> \E rf \in RiseFall : DelaySlot(o, rf, "max").exists
         /\ \A a \in CombArcs(o) : \A rf \in RiseFall :
              /\ a.models[rf].exists <=> DelaySlot(o, rf, "max").exists
              /\ a.models[rf].exists => a.models[rf].value = DelaySlot(o, rf, "max").value

\* the arc of an input pin is made whose max slot was merged from two paths
\* of different arrivals, one per input transition
C10_Witness ==
  /\ InputArcsMade
  /\ \E o \in Range(OutputPins) :
       /\ CombArcs(o) # {}
       /\ \E p, q \in SeenPaths(o) :
            /\ p.rf = q.rf /\ p.mm = "max" /\ q.mm = "max"
            /\ p.from_rf = "rise" /\ q.from_rf = "fall"
            /\ p.arrival > q.arrival
            /\ \A a \in CombArcs(o) : a.models[p.rf].value = p.arrival

----------------------------------------------------------------------------
(* C11: ClockMargins belongs to one input pin and is written by overwrite.  *)

\* the input transitions of the current input pin whose path ends have been
\* handed to the visitor
VisitedRfs ==
  IF pc \in {"setInputDelay", "deleteFilteredArrivals", "findFilteredArrivals",
             "visitPathEnds"}
  THEN IF input_rf = "rise" THEN {} ELSE {"rise"}
  ELSE IF pc \in {"findOutputDelays", "removeInputDelay"}
  THEN IF input_rf = "rise" THEN {"rise"} ELSE RiseFall
  ELSE RiseFall

\* the analysis of the current input pin is under way: from setInputPin to
\* the synthesis of its arcs
InputPinAnalysed ==
  pc \in {"setInputDelay", "deleteFilteredArrivals", "findFilteredArrivals",
          "visitPathEnds", "findOutputDelays", "removeInputDelay",
          "makeSetupHoldTimingArcs", "makeInputOutputTimingArcs"}

\* the path ends the search scoped to (current input pin, rf) hands to the
\* visitor, in the order of the visit: the check path ends behind the pin,
\* then those its paths have at constrained outputs
EndsOfSearch(rf) ==
  SelectSeq(design.ends, LAMBDA e : e.from = input_pin /\ e.from_rf = rf)
  \o Concat([i \in 1..Len(design.paths) |->
               IF design.paths[i].from = input_pin /\ design.paths[i].from_rf = rf
               THEN OutputDelayEnds(design.paths[i]) ELSE <<>>])

\* the path ends of that search with the key (target clock edge, min/max)
KeyedEnds(edge, rf, mm) ==
  SelectSeq(EndsOfSearch(rf),
            LAMBDA e : <<e.clk, e.clk_rf>> = edge /\ e.mm = mm)

\* data arrival - target clock latency + check margin of a path end
EndMargin(e) ==
  e.arrival - (IF e.clk \in propagated THEN e.latency ELSE 0) + e.margin

\* the slot (target clock edge, input transition, min/max) of ClockMargins
MarginSlot(edge, rf, mm) ==
  IF edge \in DOMAIN margins_ THEN margins_[edge][rf][mm] ELSE NoValue

\* every target clock edge a path end can name
TargetEdges ==
  {<<e.clk, e.clk_rf>> : e \in Range(design.ends)}
  \cup {<<d.clk, d.clk_rf>> : d \in sdc_output_delays}
  \cup Range(ClockEdgeOrder) \cup DOMAIN margins_

\* the model of transition rf a checking arc of (edge, mm) must carry
ExpectedCheckModel(edge, rf, mm) ==
  LET es == KeyedEnds(edge, rf, mm)
  IN  IF es = <<>> THEN NoModel
      ELSE makeScalarCheckModel(EndMargin(es[Len(es)]), CheckRole(mm))

\* the check path ends of the search scoped to (current input pin, rf) with
\* the key (target clock edge, min/max), in the order of the visit
KeyedCheckEnds(edge, rf, mm) ==
  SelectSeq(design.ends,
            LAMBDA e : /\ e.from = input_pin /\ e.from_rf = rf
                       /\ <<e.clk, e.clk_rf>> = edge /\ e.mm = mm)

\* C11, as claimed: throughout the analysis of input pin P, from setInputPin
\* on, every slot (target clock edge, input transition, min/max) of
\* ClockMargins is populated iff P's search of that input transition has been
\* visited and at least one CHECK path end with that key was visited, and it
\* then holds data arrival - target clock latency + check margin of the last
\* such check path end
C11_AsClaimed ==
  InputPinAnalysed =>
    \A edge \in TargetEdges : \A rf \in RiseFall : \A mm \in MinMax :
      LET es == KeyedCheckEnds(edge, rf, mm)
          written == rf \in VisitedRfs /\ es # <<>>
      IN  /\ MarginSlot(edge, rf, mm).exists <=> written
          /\ written => MarginSlot(edge, rf, mm).value = EndMargin(es[Len(es)])

\* C11, as the code behaves: ClockMargins holds only what the searches of the
\* current input pin wrote, by overwrite, from every path end handed to the
\* visitor, a check path end or not.  Throughout the analysis of input pin P, from
\* setInputPin on, every slot (target clock edge, input transition,
\* min/max) is populated iff P's search of that input transition has been
\* visited and handed the visitor at least one path end with that key, and
\* it then holds data arrival - target clock latency + check margin of the
\* LAST such path end (margins of earlier input pins are gone, and no worst
\* value or merge is kept); and the checking arcs made for P carry, per
\* transition, exactly the model of that last margin
C11_MarginsScopedAndOverwritten ==
  /\ InputPinAnalysed =>
       \A edge \in TargetEdges : \A rf \in RiseFall : \A mm \in MinMax :
         LET es == KeyedEnds(edge, rf, mm)
             written == rf \in VisitedRfs /\ es # <<>>
         IN  /\ MarginSlot(edge, rf, mm).exists <=> written
             /\ written => MarginSlot(edge, rf, mm).value = EndMargin(es[Len(es)])
  /\ (pc = "makeInputOutputTimingArcs") =>
       /\ \A k \in 1..Len(ClockEdgeOrder) : \A mm \in MinMax :
            (\E rf \in RiseFall : KeyedEnds(ClockEdgeOrder[k], rf, mm) # <<>>) =>
              \A clk_pin \in Range(ClockPins(ClockEdgeOrder[k][1])) :
                \E a \in CheckArcsToInput :
                  /\ a.from = Port(clk_pin)
                  /\ a.from_rf = ClockEdgeOrder[k][2]
                  /\ a.role = CheckRole(mm)
                  /\ \A rf \in RiseFall :
                       a.models[rf] = ExpectedCheckModel(ClockEdgeOrder[k], rf, mm)
       /\ \A a \in CheckArcsToInput :
            \E k \in 1..Len(ClockEdgeOrder) : \E mm \in MinMax :
              /\ a.from_rf = ClockEdgeOrder[k][2]
              /\ a.role = CheckRole(mm)
              /\ \E clk_pin \in Range(ClockPins(ClockEdgeOrder[k][1])) :
                   a.from = Port(clk_pin)
              /\ \A rf \in RiseFall :
                   a.models[rf] = ExpectedCheckModel(ClockEdgeOrder[k], rf, mm)

\* the checking arcs of the second analysed input pin are made from a margin
\* of its own, the slots the first input pin filled being empty again; a max
\* slot of the first pin was written twice, the larger margin first, and its
\* setup arc carries the smaller margin written last
C11_Witness ==
  /\ pc = "makeInputOutputTimingArcs"
  /\ CheckArcsToInput # {}
  /\ \E e \in Range(design.ends) :
       /\ e.from = input_pin
       /\ MarginSlot(<<e.clk, e.clk_rf>>, e.from_rf, e.mm).exists
  /\ \E i, j \in 1..Len(design.ends) :
       /\ i < j
       /\ design.ends[i].from # input_pin
       /\ design.ends[i].from = design.ends[j].from
       /\ design.ends[i].from_rf = design.ends[j].from_rf
       /\ design.ends[i].clk = design.ends[j].clk
       /\ design.ends[i].clk_rf = design.ends[j].clk_rf
       /\ design.ends[i].mm = "max" /\ design.ends[j].mm = "max"
       /\ EndMargin(design.ends[i]) > EndMargin(design.ends[j])
       /\ ~MarginSlot(<<design.ends[j].clk, design.ends[j].clk_rf>>,
                      design.ends[j].from_rf, "max").exists
       /\ \E a \in ArcsOf(cell_arcs, {"setup"}) :
            /\ a.to = Port(design.ends[j].from)
            /\ a.from_rf = design.ends[j].clk_rf
            /\ a.models[design.ends[j].from_rf].value = EndMargin(design.ends[j])

====
